---- MODULE Spec2Model ----
(***************************************************************************)
(* A model of Benchmark.py: the concurrent match orchestrator.             *)
(*                                                                         *)
(*   main          creates `parallel` lanes, installs the signal handler   *)
(*                 that sets stop_event, collects the lanes' lists, sorts  *)
(*                 and writes summary.csv.                                 *)
(*   worker_loop   one lane: strides over its game indices.                *)
(*   run_one_game  one game: server, readiness wait, two players,          *)
(*                 end-of-game wait, teardown, classification.             *)
(*   parse_winner_from_log, wait_end_in_log, wait_server_ready, kill_tree  *)
(*                 are operators, computed as the code computes them.      *)
(*                                                                         *)
(* Text is modelled at the level of tokens: a line is a sequence of        *)
(* tokens, a file a sequence of lines.  The tokens are chosen so that no   *)
(* marker the code searches for straddles two tokens.                      *)
(*                                                                         *)
(* Time is modelled by nondeterminism: a polling loop either sees its      *)
(* marker at some poll or its deadline passes.  A poll that sees nothing   *)
(* changes no state and is a stuttering step.                              *)
(*                                                                         *)
(* The exceptions modelled are those of subprocess.Popen (OSError): they  *)
(* leave run_one_game through its finally block when inside the try block, *)
(* leave worker_loop, and reach main at f.result().                        *)
(*                                                                         *)
(* The pass-through fields of a row (host, my_mode, my_seconds,            *)
(* monte_seconds, server_timeout) are the same in every row and are left   *)
(* out.                                                                    *)
(***************************************************************************)
EXTENDS Integers, Sequences, FiniteSets, TLC

\* ------------------------------------------------------------------ bounds
MaxGames == 2
MaxLanes == 2
MaxRunLines == 1
MaxTokens == 4

\* ------------------------------------------------------- program constants
PortBase == 25033
ExitTimeout == 124
ExitInterrupted == 130

VARIABLES
  games,       \* args.games
  parallel,    \* args.parallel
  stream,      \* not args.no_stream_server_log
  stop,        \* stop_event
  pc,          \* pc[w]: where lane w is
  game,        \* game[w]: worker_loop's local `game`
  results,     \* results[w]: worker_loop's local `results`
  slog,        \* slog[w]: the server log of lane w's current game
  mylog,       \* mylog[w]: my_log of lane w's current game
  proc,        \* proc[g]: the processes spawned for game g, and their port
  trace,       \* trace[g]: history of what run_one_game did for game g
  stray,       \* a kill_tree call has signalled a process group it never spawned
  mainpc,      \* where main is
  collected,   \* the lanes whose future main has consumed
  merged,      \* main's local `results`
  summary,     \* the rows written to summary.csv
  plog,        \* SpecParse: the log given to parse_winner_from_log
  pres         \* SpecParse: what parse_winner_from_log returned

laneVars == <<pc, game, results, slog, mylog, proc, trace, stray>>
mainVars == <<mainpc, collected, merged, summary>>
parseVars == <<plog, pres>>
vars == <<games, parallel, stream, stop, laneVars, mainVars, parseVars>>

\* -------------------------------------------------------------------- text
\* The tokens a player's log is made of.  "p1" stands for any text that holds
\* none of the markers.
Tokens == {"END ", "p1", " win.", " lose.", "draw", "DRAW"}

\* A file that does not exist.
NoFile == [exists |-> FALSE, lines |-> <<>>]

\* An existing file with these lines.
File(lines) == [exists |-> TRUE, lines |-> lines]

\* str.lower() on one token.
Lower(tok) ==
  CASE tok = "END " -> "end "
    [] tok = "DRAW" -> "draw"
    [] OTHER -> tok

\* line.lower()
LowerLine(line) == [i \in DOMAIN line |-> Lower(line[i])]

\* `tok in line`
Contains(line, tok) == \E i \in DOMAIN line : line[i] = tok

\* line.startswith(tok)
StartsWith(line, tok) == Len(line) > 0 /\ line[1] = tok

\* A faulty variant of ClassifyLine that tests the lose token before the win token.
ClassifyLineLoseFirst(line) ==
  IF Contains(line, " lose.") THEN "monte"
  ELSE IF Contains(line, " win.") THEN "my"
  ELSE IF Contains(LowerLine(line), "draw") THEN "draw"
  ELSE "unknown"

\* The if/elif chain of parse_winner_from_log on one "END " line.
ClassifyLine(line) ==
  IF Contains(line, " win.") THEN "my"
  ELSE IF Contains(line, " lose.") THEN "monte"
  ELSE IF Contains(LowerLine(line), "draw") THEN "draw"
  ELSE "unknown"

\* The for loop of parse_winner_from_log from line i on, `winner` so far.
RECURSIVE ParseLoop(_, _, _)
ParseLoop(lines, i, winner) ==
  IF i > Len(lines) THEN winner
  ELSE ParseLoop(lines, i + 1,
                 IF StartsWith(lines[i], "END ") THEN ClassifyLine(lines[i])
                 ELSE winner)

\* A faulty variant of parse_winner_from_log that keeps the first "END " line.
RECURSIVE ParseFirst(_, _)
ParseFirst(lines, i) ==
  IF i > Len(lines) THEN "no_end"
  ELSE IF StartsWith(lines[i], "END ") THEN ClassifyLine(lines[i])
  ELSE ParseFirst(lines, i + 1)

parse_winner_first_end(file) ==
  IF ~file.exists THEN "no_log" ELSE ParseFirst(file.lines, 1)

parse_winner_from_log(file) ==
  IF ~file.exists THEN "no_log" ELSE ParseLoop(file.lines, 1, "no_end")

\* The test of wait_end_in_log: "END " in path.read_text(); a missing file
\* raises FileNotFoundError, which the loop swallows.
EndInText(file) ==
  file.exists /\ \E i \in DOMAIN file.lines : Contains(file.lines[i], "END ")

\* The server log is only ever searched for these two markers: its text is
\* the set of the markers it holds.
Markers == {"Othello Server", "tcp port:"}

\* A faulty variant of ReadyInText that is content with one marker.
ReadyInTextEither(file) ==
  file.exists /\ ("Othello Server" \in file.marks \/ "tcp port:" \in file.marks)

\* The test of wait_server_ready.
ReadyInText(file) ==
  file.exists /\ "Othello Server" \in file.marks /\ "tcp port:" \in file.marks

\* The lines of the text made of the tokens toks with a line break after each
\* position of breaks.
RECURSIVE SplitFrom(_, _, _, _, _)
SplitFrom(toks, breaks, i, cur, acc) ==
  IF i > Len(toks) THEN (IF cur = <<>> THEN acc ELSE Append(acc, cur))
  ELSE IF i \in breaks
       THEN SplitFrom(toks, breaks, i + 1, <<>>, Append(acc, Append(cur, toks[i])))
       ELSE SplitFrom(toks, breaks, i + 1, Append(cur, toks[i]), acc)

\* Every log of at most MaxTokens tokens, and the missing log.
ParseInputs ==
  {NoFile} \cup
  { File(SplitFrom(toks, breaks, 1, <<>>, <<>>)) :
      toks \in UNION {[1..n -> Tokens] : n \in 0..MaxTokens},
      breaks \in SUBSET (1..(MaxTokens - 1)) }

\* ------------------------------------------------------------ the program
Lanes == 0..(parallel - 1)
Games == 1..games

\* The lines a player writes to its log during a run: a line with "END " in
\* its middle, a result line.  (Lines without "END " are among ParseInputs.)
RunLines == { <<"p1", "END ">>, <<"END ", "p1", " win.">> }

\* What p.wait(timeout=10) can do: return the exit code, or time out.
RealExits == {0}
WaitOutcomes ==
  {[timeout |-> FALSE, code |-> c] : c \in RealExits} \cup
  {[timeout |-> TRUE, code |-> 0]}

\* A faulty variant of PortOf that forgets the lane's offset.
PortOfShared(w) == PortBase

\* worker_loop: port = port_base + worker
PortOf(w) == PortBase + w

\* run_one_game: order
Order(g) == IF g % 2 = 1 THEN "my-first" ELSE "monte-first"

\* The dict run_one_game returns.
Row(g, w, winner, my_exit, monte_exit) ==
  [game |-> g, worker |-> w, port |-> PortOf(w), connect_order |-> Order(g),
   winner |-> winner, my_exit |-> my_exit, monte_exit |-> monte_exit]

\* Process states: "none" (never spawned), "running", "exited" (it ended by
\* itself and p.wait reaped it), "killed" (kill_tree sent SIGTERM and then
\* SIGKILL to its process group).  A process that ends by itself is seen by
\* the code only through p.wait, so it counts as running until then.
\* my_code and monte_code are the exit codes the players ended with by
\* themselves (0 until then).
NoProc ==
  [server |-> "none", my |-> "none", monte |-> "none", port |-> 0,
   my_code |-> 0, monte_code |-> 0]

ProcStates == {"none", "running", "exited", "killed"}

\* kill_tree(proc): SIGTERM, the grace sleep, SIGKILL; every error swallowed.
\* The state of the process after the call.
KillTree(st) == IF st = "running" THEN "killed" ELSE st

\* kill_tree(proc): can the call signal a process group that is not the
\* handle's?  A running or killed process is not reaped: its pid is its own
\* and os.getpgid gives its own group.  A reaped process has given up its
\* pid: os.getpgid(proc.pid) fails (and proc.send_signal does nothing), or the
\* pid is another process's by now and os.killpg signals that one's group.
KillTreeCanStray(st) == st = "exited"

\* The effect on `stray` of kill_tree calls on handles in the states sts.
Kills(sts) ==
  IF \E st \in sts : KillTreeCanStray(st) THEN stray' \in {stray, TRUE}
  ELSE stray' = stray

\* No kill_tree call.
NoKill == UNCHANGED stray

\* wait_short(p): the exit code, or kill_tree and 124.
WaitShortCode(o) == IF o.timeout THEN ExitTimeout ELSE o.code
WaitShortState(o) == IF o.timeout THEN KillTree("running") ELSE "exited"

\* A faulty variant of WaitShortKills that kills the player after every wait.
WaitShortKillsAlways(o) == IF o.timeout THEN {"running"} ELSE {"exited"}

\* wait_short(p): the states of the handles it passes to kill_tree.
WaitShortKills(o) == IF o.timeout THEN {"running"} ELSE {}

\* A faulty variant of FinallyEvents whose finally block forgets the server.
FinallyEventsNoKill ==
  <<"finally">> \o (IF stream THEN <<"tee_join">> ELSE <<>>)

\* The finally block of run_one_game, as events.
FinallyEvents ==
  <<"finally", "kill_server">> \o (IF stream THEN <<"tee_join">> ELSE <<>>)

\* results.sort(key=lambda r: r["game"]): a stable insertion sort.
RECURSIVE InsertRow(_, _)
InsertRow(sorted, r) ==
  IF sorted = <<>> THEN <<r>>
  ELSE IF sorted[Len(sorted)].game <= r.game THEN Append(sorted, r)
  ELSE Append(InsertRow(SubSeq(sorted, 1, Len(sorted) - 1), r), sorted[Len(sorted)])

RECURSIVE SortFrom(_, _, _)
SortFrom(rows, i, sorted) ==
  IF i > Len(rows) THEN sorted ELSE SortFrom(rows, i + 1, InsertRow(sorted, rows[i]))

SortByGame(rows) == SortFrom(rows, 1, <<>>)

NoServerLog == [exists |-> FALSE, marks |-> {}]

Init ==
  /\ games \in 1..MaxGames
  /\ parallel \in 1..MaxLanes
  /\ stream \in BOOLEAN
  /\ stop = FALSE
  /\ pc = [w \in Lanes |-> "loop"]
  /\ game = [w \in Lanes |-> w + 1]
  /\ results = [w \in Lanes |-> <<>>]
  /\ slog = [w \in Lanes |-> NoServerLog]
  /\ mylog = [w \in Lanes |-> NoFile]
  /\ proc = [g \in Games |-> NoProc]
  /\ trace = [g \in Games |-> <<>>]
  /\ stray = FALSE
  /\ mainpc = "collect"
  /\ collected = {}
  /\ merged = <<>>
  /\ summary = <<>>
  /\ plog = NoFile
  /\ pres = "unset"

\* _on_signal: stop_event.set(), while main is inside the with block.
Signal ==
  /\ mainpc \in {"collect", "unwinding"}
  /\ ~stop
  /\ stop' = TRUE
  /\ UNCHANGED <<games, parallel, stream, laneVars, mainVars, parseVars>>

\* What every lane step leaves alone.
LaneFrame == UNCHANGED <<games, parallel, stream, stop, mainVars, parseVars>>

\* run_one_game returns row to worker_loop, which appends it and advances.
Return(w, row) ==
  /\ results' = [results EXCEPT ![w] = Append(@, row)]
  /\ game' = [game EXCEPT ![w] = @ + parallel]
  /\ pc' = [pc EXCEPT ![w] = "loop"]
  /\ slog' = [slog EXCEPT ![w] = NoServerLog]
  /\ mylog' = [mylog EXCEPT ![w] = NoFile]

\* An exception leaves run_one_game and worker_loop.
Raise(w) ==
  /\ pc' = [pc EXCEPT ![w] = "raised"]
  /\ slog' = [slog EXCEPT ![w] = NoServerLog]
  /\ mylog' = [mylog EXCEPT ![w] = NoFile]
  /\ UNCHANGED <<results, game>>

\* worker_loop: the while condition holds.
LoopEnter(w) ==
  /\ pc[w] = "loop"
  /\ game[w] <= games /\ ~stop
  /\ pc' = [pc EXCEPT ![w] = "call"]
  /\ UNCHANGED <<game, results, slog, mylog, proc, trace>>
  /\ NoKill
  /\ LaneFrame

\* worker_loop: the while condition fails; return results.
LoopExit(w) ==
  /\ pc[w] = "loop"
  /\ ~(game[w] <= games /\ ~stop)
  /\ pc' = [pc EXCEPT ![w] = "returned"]
  /\ UNCHANGED <<game, results, slog, mylog, proc, trace>>
  /\ NoKill
  /\ LaneFrame

\* run_one_game: stop_event is set at entry.
EnterStopped(w) ==
  /\ pc[w] = "call"
  /\ stop
  /\ trace' = [trace EXCEPT ![game[w]] = <<"stopped">>]
  /\ Return(w, Row(game[w], w, "stopped", ExitInterrupted, ExitInterrupted))
  /\ UNCHANGED proc
  /\ NoKill
  /\ LaneFrame

\* A faulty variant of SpawnServer that does not test stop_event.
SpawnServerUnguarded(w) ==
  /\ pc[w] = "call"
  /\ proc' = [proc EXCEPT ![game[w]] = [@ EXCEPT !.server = "running", !.port = PortOf(w)]]
  /\ slog' = [slog EXCEPT ![w] = [exists |-> ~stream, marks |-> {}]]
  /\ trace' = [trace EXCEPT ![game[w]] =
                 <<"spawn_server">> \o (IF stream THEN <<"tee_start">> ELSE <<>>)]
  /\ pc' = [pc EXCEPT ![w] = "ready"]
  /\ UNCHANGED <<game, results, mylog>>
  /\ NoKill
  /\ LaneFrame

\* run_one_game: the server is spawned, and the tee thread started.
SpawnServer(w) ==
  /\ pc[w] = "call"
  /\ ~stop
  /\ proc' = [proc EXCEPT ![game[w]] = [@ EXCEPT !.server = "running", !.port = PortOf(w)]]
  /\ slog' = [slog EXCEPT ![w] = [exists |-> ~stream, marks |-> {}]]
  /\ trace' = [trace EXCEPT ![game[w]] =
                 <<"spawn_server">> \o (IF stream THEN <<"tee_start">> ELSE <<>>)]
  /\ pc' = [pc EXCEPT ![w] = "ready"]
  /\ UNCHANGED <<game, results, mylog>>
  /\ NoKill
  /\ LaneFrame

\* run_one_game: subprocess.Popen of the server raises OSError.
SpawnServerRaises(w) ==
  /\ pc[w] = "call"
  /\ ~stop
  /\ trace' = [trace EXCEPT ![game[w]] = <<"spawn_server_raises">>]
  /\ Raise(w)
  /\ UNCHANGED proc
  /\ NoKill
  /\ LaneFrame

\* tee_lines opens the server log.
TeeOpens(w) ==
  /\ pc[w] = "ready"
  /\ stream /\ ~slog[w].exists
  /\ slog' = [slog EXCEPT ![w].exists = TRUE]
  /\ UNCHANGED <<pc, game, results, mylog, proc, trace>>
  /\ NoKill
  /\ LaneFrame

\* The server prints a marker, which reaches its log.  The log is read only
\* by wait_server_ready, so what is printed later is not modelled.
ServerPrints(w, m) ==
  /\ pc[w] = "ready"
  /\ slog[w].exists /\ m \notin slog[w].marks
  /\ slog' = [slog EXCEPT ![w].marks = @ \cup {m}]
  /\ UNCHANGED <<pc, game, results, mylog, proc, trace>>
  /\ NoKill
  /\ LaneFrame

\* wait_server_ready: a poll before the deadline finds both markers.
ServerReady(w) ==
  /\ pc[w] = "ready"
  /\ ReadyInText(slog[w])
  /\ pc' = [pc EXCEPT ![w] = "spawn"]
  /\ trace' = [trace EXCEPT ![game[w]] = Append(@, "ready")]
  /\ UNCHANGED <<game, results, slog, mylog, proc>>
  /\ NoKill
  /\ LaneFrame

\* A faulty variant of ReadyTimeout that returns outside the try block, so that the
\* finally block does not run.
ReadyTimeoutNoCleanup(w) ==
  /\ pc[w] = "ready"
  /\ trace' = [trace EXCEPT ![game[w]] = Append(@, "ready_timeout")]
  /\ Return(w, Row(game[w], w, "server_no_port", ExitTimeout, ExitTimeout))
  /\ UNCHANGED proc
  /\ NoKill
  /\ LaneFrame

\* wait_server_ready: the deadline passes; run_one_game returns
\* server_no_port through its finally block.
ReadyTimeout(w) ==
  /\ pc[w] = "ready"
  /\ trace' = [trace EXCEPT ![game[w]] = @ \o <<"ready_timeout">> \o FinallyEvents]
  /\ proc' = [proc EXCEPT ![game[w]].server = KillTree(@)]
  /\ Return(w, Row(game[w], w, "server_no_port", ExitTimeout, ExitTimeout))
  /\ Kills({proc[game[w]].server, KillTree(proc[game[w]].server)})
  /\ LaneFrame

\* A faulty variant of SpawnEvents that spawns the benchmark player first in
\* every game.
SpawnEventsMyFirst(g) == <<"spawn_my", "spawn_monte">>

\* The events of spawning the two players in the game's connect order.
SpawnEvents(g) ==
  IF Order(g) = "my-first" THEN <<"spawn_my", "spawn_monte">>
  ELSE <<"spawn_monte", "spawn_my">>

\* run_one_game: both players are spawned.
SpawnPlayers(w) ==
  /\ pc[w] = "spawn"
  /\ proc' = [proc EXCEPT ![game[w]] = [@ EXCEPT !.my = "running", !.monte = "running"]]
  /\ mylog' = [mylog EXCEPT ![w] = File(<<>>)]
  /\ trace' = [trace EXCEPT ![game[w]] = @ \o SpawnEvents(game[w])]
  /\ pc' = [pc EXCEPT ![w] = "end"]
  /\ UNCHANGED <<game, results, slog>>
  /\ NoKill
  /\ LaneFrame

\* run_one_game: Popen of the first player raises; the finally block runs.
SpawnFirstRaises(w) ==
  /\ pc[w] = "spawn"
  /\ trace' = [trace EXCEPT ![game[w]] = @ \o <<"spawn_raises">> \o FinallyEvents]
  /\ proc' = [proc EXCEPT ![game[w]].server = KillTree(@)]
  /\ Raise(w)
  /\ Kills({proc[game[w]].server})
  /\ LaneFrame

\* run_one_game: the first player is spawned and Popen of the second raises;
\* the finally block runs.
SpawnSecondRaises(w) ==
  /\ pc[w] = "spawn"
  /\ trace' = [trace EXCEPT ![game[w]] =
                 @ \o <<SpawnEvents(game[w])[1], "spawn_raises">> \o FinallyEvents]
  /\ proc' = [proc EXCEPT ![game[w]] =
                 IF Order(game[w]) = "my-first"
                 THEN [@ EXCEPT !.my = "running", !.server = KillTree(@)]
                 ELSE [@ EXCEPT !.monte = "running", !.server = KillTree(@)]]
  /\ Raise(w)
  /\ Kills({proc[game[w]].server})
  /\ LaneFrame

\* The benchmark player writes a line to its log.
PlayerWrites(w, line) ==
  /\ pc[w] \in {"end", "ended"}
  /\ proc[game[w]].my = "running"
  /\ Len(mylog[w].lines) < MaxRunLines
  /\ mylog' = [mylog EXCEPT ![w].lines = Append(@, line)]
  /\ UNCHANGED <<pc, game, results, slog, proc, trace>>
  /\ NoKill
  /\ LaneFrame

\* wait_end_in_log: a poll before the deadline finds "END ".
EndSeen(w) ==
  /\ pc[w] = "end"
  /\ EndInText(mylog[w])
  /\ pc' = [pc EXCEPT ![w] = "ended"]
  /\ trace' = [trace EXCEPT ![game[w]] = Append(@, "end_seen")]
  /\ UNCHANGED <<game, results, slog, mylog, proc>>
  /\ NoKill
  /\ LaneFrame

\* A faulty variant of EndTimeout whose wait loop also ends when stop_event is set,
\* the game then being reported as stopped.
EndTimeoutCut(w) ==
  /\ pc[w] = "end"
  /\ trace' = [trace EXCEPT ![game[w]] =
                 @ \o <<"end_timeout", "kill_my", "kill_monte">> \o FinallyEvents]
  /\ proc' = [proc EXCEPT ![game[w]] =
                 [@ EXCEPT !.my = KillTree(@), !.monte = KillTree(@),
                           !.server = KillTree(@)]]
  /\ Return(w, IF stop
                THEN Row(game[w], w, "stopped", ExitInterrupted, ExitInterrupted)
                ELSE Row(game[w], w, "no_end", ExitTimeout, ExitTimeout))
  /\ Kills({proc[game[w]].my, proc[game[w]].monte, proc[game[w]].server})
  /\ LaneFrame

\* A faulty variant of EndTimeout that classifies the log after the timeout.
EndTimeoutClassifies(w) ==
  /\ pc[w] = "end"
  /\ trace' = [trace EXCEPT ![game[w]] =
                 @ \o <<"end_timeout", "kill_my", "kill_monte">> \o FinallyEvents]
  /\ proc' = [proc EXCEPT ![game[w]] =
                 [@ EXCEPT !.my = KillTree(@), !.monte = KillTree(@),
                           !.server = KillTree(@)]]
  /\ Return(w, Row(game[w], w, parse_winner_from_log(mylog[w]), ExitTimeout, ExitTimeout))
  /\ Kills({proc[game[w]].my, proc[game[w]].monte, proc[game[w]].server})
  /\ LaneFrame

\* wait_end_in_log: the deadline passes; both players are killed and
\* run_one_game returns no_end through its finally block.
EndTimeout(w) ==
  /\ pc[w] = "end"
  /\ trace' = [trace EXCEPT ![game[w]] =
                 @ \o <<"end_timeout", "kill_my", "kill_monte">> \o FinallyEvents]
  /\ proc' = [proc EXCEPT ![game[w]] =
                 [@ EXCEPT !.my = KillTree(@), !.monte = KillTree(@),
                           !.server = KillTree(@)]]
  /\ Return(w, Row(game[w], w, "no_end", ExitTimeout, ExitTimeout))
  /\ Kills({proc[game[w]].my, proc[game[w]].monte, proc[game[w]].server})
  /\ LaneFrame

\* The events of wait_short(p) with outcome o.
WaitEvents(who, o) ==
  IF o.timeout THEN <<"wait_" \o who, "kill_" \o who>> ELSE <<"wait_" \o who>>

\* run_one_game after END: kill the server, wait for the players, classify,
\* and return through the finally block; outs is what p.wait can do.
TeardownWith(w, outs) ==
  /\ pc[w] = "ended"
  /\ \E om \in outs, oo \in outs :
       /\ trace' = [trace EXCEPT ![game[w]] =
                      @ \o <<"kill_server">> \o WaitEvents("my", om)
                        \o WaitEvents("monte", oo) \o <<"classify">> \o FinallyEvents]
       /\ proc' = [proc EXCEPT ![game[w]] =
                      [@ EXCEPT !.server = KillTree(KillTree(@)),
                                !.my = WaitShortState(om),
                                !.monte = WaitShortState(oo),
                                !.my_code = om.code,
                                !.monte_code = oo.code]]
       /\ Kills({proc[game[w]].server, KillTree(proc[game[w]].server)}
                \cup WaitShortKills(om) \cup WaitShortKills(oo))
       /\ Return(w, Row(game[w], w, parse_winner_from_log(mylog[w]),
                        WaitShortCode(om), WaitShortCode(oo)))
  /\ LaneFrame

Teardown(w) == TeardownWith(w, WaitOutcomes)

\* What every step of main leaves alone.
MainFrame == UNCHANGED <<games, parallel, stream, stop, laneVars, parseVars>>

\* main: as_completed yields lane w's future and its list is appended.
Collect(w) ==
  /\ mainpc = "collect"
  /\ w \notin collected
  /\ pc[w] = "returned"
  /\ merged' = merged \o results[w]
  /\ collected' = collected \cup {w}
  /\ UNCHANGED <<mainpc, summary>>
  /\ MainFrame

\* main: f.result() re-raises lane w's exception; the with block is left.
CollectRaises(w) ==
  /\ mainpc = "collect"
  /\ w \notin collected
  /\ pc[w] = "raised"
  /\ mainpc' = "unwinding"
  /\ UNCHANGED <<collected, merged, summary>>
  /\ MainFrame

\* main: every future was consumed; the finally block sorts and writes.
Persist ==
  /\ mainpc = "collect"
  /\ collected = Lanes
  /\ summary' = SortByGame(merged)
  /\ mainpc' = "done"
  /\ UNCHANGED <<collected, merged>>
  /\ MainFrame

\* main: the executor's shutdown has waited for every lane; the finally
\* block sorts and writes what was collected, and the exception goes on.
PersistPartial ==
  /\ mainpc = "unwinding"
  /\ \A w \in Lanes : pc[w] \in {"returned", "raised"}
  /\ summary' = SortByGame(merged)
  /\ mainpc' = "failed"
  /\ UNCHANGED <<collected, merged>>
  /\ MainFrame

Next ==
  \/ Signal
  \/ \E w \in Lanes : LoopEnter(w)
  \/ \E w \in Lanes : LoopExit(w)
  \/ \E w \in Lanes : EnterStopped(w)
  \/ \E w \in Lanes : SpawnServer(w)
  \/ \E w \in Lanes : SpawnServerRaises(w)
  \/ \E w \in Lanes : TeeOpens(w)
  \/ \E w \in Lanes, m \in Markers : ServerPrints(w, m)
  \/ \E w \in Lanes : ServerReady(w)
  \/ \E w \in Lanes : ReadyTimeout(w)
  \/ \E w \in Lanes : SpawnPlayers(w)
  \/ \E w \in Lanes : SpawnFirstRaises(w)
  \/ \E w \in Lanes : SpawnSecondRaises(w)
  \/ \E w \in Lanes, line \in RunLines : PlayerWrites(w, line)
  \/ \E w \in Lanes : EndSeen(w)
  \/ \E w \in Lanes : EndTimeout(w)
  \/ \E w \in Lanes : Teardown(w)
  \/ \E w \in Lanes : Collect(w)
  \/ \E w \in Lanes : CollectRaises(w)
  \/ Persist
  \/ PersistPartial

Spec == Init /\ [][Next]_vars

\* ------------------------------------------- the classification, in isolation
InitParse ==
  /\ games = 1 /\ parallel = 1 /\ stream = TRUE /\ stop = FALSE
  /\ pc = [w \in Lanes |-> "returned"]
  /\ game = [w \in Lanes |-> w + 1]
  /\ results = [w \in Lanes |-> <<>>]
  /\ slog = [w \in Lanes |-> NoServerLog]
  /\ mylog = [w \in Lanes |-> NoFile]
  /\ proc = [g \in Games |-> NoProc]
  /\ trace = [g \in Games |-> <<>>]
  /\ stray = FALSE
  /\ mainpc = "done"
  /\ collected = Lanes
  /\ merged = <<>>
  /\ summary = <<>>
  /\ plog \in ParseInputs
  /\ pres = "unset"

\* winner = parse_winner_from_log(path)
ParseStep ==
  /\ pres = "unset"
  /\ pres' = parse_winner_from_log(plog)
  /\ UNCHANGED <<plog, games, parallel, stream, stop, laneVars, mainVars>>

NextParse == ParseStep

SpecParse == InitParse /\ [][NextParse]_vars

\* ------------------------------------- the path after END, in isolation
\* The exit codes a player can end with by itself; a process may exit with
\* any code, 124 included.
TailExits == {0, 1, ExitTimeout}

\* What p.wait(timeout=10) can do, over TailExits.
TailOutcomes ==
  {[timeout |-> FALSE, code |-> c] : c \in TailExits} \cup
  {[timeout |-> TRUE, code |-> 0]}

\* The player logs in which wait_end_in_log finds "END ".
TailLogs ==
  {File(ls) : ls \in {l \in UNION {[1..n -> RunLines] : n \in 1..MaxRunLines} :
                         EndInText(File(l))}}

\* Lane 0 of a one-game run right after wait_end_in_log returned True for
\* game 1: the server and both players run, the server log holds both
\* markers, the player log holds "END "; the stop flag may be set by then.
InitTail ==
  /\ games = 1 /\ parallel = 1
  /\ stream \in BOOLEAN
  /\ stop \in BOOLEAN
  /\ pc = [w \in Lanes |-> "ended"]
  /\ game = [w \in Lanes |-> w + 1]
  /\ results = [w \in Lanes |-> <<>>]
  /\ slog = [w \in Lanes |-> [exists |-> TRUE, marks |-> Markers]]
  /\ mylog \in [Lanes -> TailLogs]
  /\ proc = [g \in Games |->
               [NoProc EXCEPT !.server = "running", !.my = "running",
                              !.monte = "running", !.port = PortOf(g - 1)]]
  /\ trace = [g \in Games |->
                <<"spawn_server">> \o (IF stream THEN <<"tee_start">> ELSE <<>>)
                  \o <<"ready">> \o SpawnEvents(g) \o <<"end_seen">>]
  /\ stray = FALSE
  /\ mainpc = "collect"
  /\ collected = {}
  /\ merged = <<>>
  /\ summary = <<>>
  /\ plog = NoFile
  /\ pres = "unset"

NextTail ==
  \/ \E w \in Lanes : TeardownWith(w, TailOutcomes)
  \/ \E w \in Lanes : LoopExit(w)
  \/ \E w \in Lanes : Collect(w)
  \/ Persist

SpecTail == InitTail /\ [][NextTail]_vars

\* ------------------------------------------------------------- the claims
\* The rows of every lane's list.
AllRows == UNION { {results[w][i] : i \in DOMAIN results[w]} : w \in Lanes }

\* The game indices of a list of rows.
GamesOf(rows) == {rows[i].game : i \in DOMAIN rows}

\* The event e occurs in the history t.
Has(t, e) == \E i \in DOMAIN t : t[i] = e

\* How often the event e occurs in the history t.
Count(t, e) == Cardinality({i \in DOMAIN t : t[i] = e})

\* The game indices the stride assigns to lane w.
Owned(w) == {g \in Games : (g - 1) % parallel = w}

\* Some process spawned for game g has neither ended nor been killed.
Live(g) == "running" \in {proc[g].server, proc[g].my, proc[g].monte}

\* Lane w is inside run_one_game, past the spawn of the server.
InFlight(w) == pc[w] \in {"ready", "spawn", "end", "ended"}

\* The game indices lane w has called run_one_game with, in call order.
Calls(w) ==
  [i \in DOMAIN results[w] |-> results[w][i].game] \o
  (IF InFlight(w) \/ pc[w] \in {"call", "raised"} THEN <<game[w]>> ELSE <<>>)

\* C1: once every lane has returned and main has merged and written the
\* lists, the rows' game indices are exactly 1..N, one row each.
C1_AllGamesReported ==
  mainpc = "done" =>
    /\ GamesOf(summary) = 1..games
    /\ Len(summary) = games

\* C2: in a run where cancellation is never requested, a lane that has left
\* worker_loop has called run_one_game with exactly its stride of game
\* indices, in ascending order, each once.
C2_StrideExact ==
  \A w \in Lanes :
    (pc[w] \in {"returned", "raised"} /\ ~stop) =>
      /\ Len(Calls(w)) = Cardinality(Owned(w))
      /\ \A i \in DOMAIN Calls(w) : Calls(w)[i] = w + 1 + (i - 1) * parallel

\* C3: a lane that has returned has a stopped row, with exit codes 130, for
\* every game of its stride that it never started, and no process was
\* spawned for such a game.
C3_StoppedRowsRecorded ==
  \A w \in Lanes :
    pc[w] = "returned" =>
      \A g \in Owned(w) :
        proc[g].server = "none" =>
          /\ proc[g] = NoProc
          /\ \E i \in DOMAIN results[w] :
               /\ results[w][i].game = g
               /\ results[w][i].winner = "stopped"
               /\ results[w][i].my_exit = 130
               /\ results[w][i].monte_exit = 130

\* The three ways through run_one_game once the server is spawned.
EndsByReadyTimeout(t) ==
  /\ Has(t, "ready_timeout")
  /\ ~Has(t, "ready") /\ ~Has(t, "end_seen") /\ ~Has(t, "end_timeout")
EndsByWallTimeout(t) ==
  /\ Has(t, "ready") /\ Has(t, "spawn_my") /\ Has(t, "spawn_monte")
  /\ Has(t, "end_timeout")
  /\ ~Has(t, "ready_timeout") /\ ~Has(t, "end_seen")
EndsByEndSeen(t) ==
  /\ Has(t, "ready") /\ Has(t, "spawn_my") /\ Has(t, "spawn_monte")
  /\ Has(t, "end_seen") /\ Has(t, "wait_my") /\ Has(t, "wait_monte")
  /\ Has(t, "classify")
  /\ ~Has(t, "ready_timeout") /\ ~Has(t, "end_timeout")

\* C4: the row of a game whose server was spawned is never a stopped row, and
\* the game went the whole way of one of its three paths (readiness timeout,
\* wall timeout, END seen) and through the finally block, whether or not the
\* flag was set meanwhile; a stopped row belongs to a game that spawned nothing.
C4_InFlightGameNotCut ==
  \A r \in AllRows :
    /\ proc[r.game].server # "none" =>
         /\ r.winner # "stopped"
         /\ r.winner = "server_no_port" <=> EndsByReadyTimeout(trace[r.game])
         /\ \/ EndsByReadyTimeout(trace[r.game])
            \/ EndsByWallTimeout(trace[r.game])
            \/ EndsByEndSeen(trace[r.game])
         /\ Has(trace[r.game], "finally")
    /\ r.winner = "stopped" => trace[r.game] = <<"stopped">> /\ proc[r.game] = NoProc

\* The flag is set while a lane's second game is in flight with END seen:
\* the server was spawned before the flag was set, and the game goes on.
C4_Witness ==
  \E w \in Lanes :
    /\ stop
    /\ Len(results[w]) = 1
    /\ results[w][1].winner = "my"
    /\ pc[w] = "ended"
    /\ proc[game[w]].server = "running"

\* C5: lane i uses port port_base + i; a live process belongs to the game its
\* lane is running (or was running when an exception left the lane); no two
\* games with live processes share a port; at most P games have live
\* processes; the processes of a game whose row was returned are all gone.
C5_PortExclusive ==
  /\ \A g1 \in Games, g2 \in Games :
       (g1 # g2 /\ Live(g1) /\ Live(g2)) => proc[g1].port # proc[g2].port
  /\ Cardinality({g \in Games : Live(g)}) <= parallel
  /\ \A g \in Games :
       Live(g) => \E w \in Lanes :
                     /\ proc[g].port = PortBase + w
                     /\ game[w] = g
                     /\ InFlight(w) \/ pc[w] = "raised"
  /\ \A w \in Lanes : \A i \in DOMAIN results[w] :
       /\ results[w][i].port = PortBase + w
       /\ ~Live(results[w][i].game)

\* Two lanes have a game with live processes at once.
C5_Witness ==
  \E g1 \in Games, g2 \in Games :
    /\ g1 # g2
    /\ proc[g1].server = "running" /\ proc[g1].my = "running"
    /\ proc[g2].server = "running" /\ proc[g2].my = "running"

\* C6: whenever run_one_game is not running a game, no process spawned for
\* that game is still running unkilled.
C6_NoOrphan ==
  \A g \in Games :
    Live(g) => \E w \in Lanes : InFlight(w) /\ game[w] = g

\* C7: the server is terminated exactly once in every game that returned a row.
C7_TeardownOncePerGame ==
  \A r \in AllRows : Count(trace[r.game], "kill_server") = 1

\* C7 amended: the finally block, which terminates the server, runs exactly
\* once in every game that spawned a server and returned a row, and not at all
\* in a stopped game; the server is terminated twice on the success path and
\* once on the two timeout paths; each player is terminated at most once.
C7_TeardownAmended ==
  \A r \in AllRows :
    LET t == trace[r.game] IN
      /\ Count(t, "finally") = (IF r.winner = "stopped" THEN 0 ELSE 1)
      /\ Count(t, "kill_server") =
           (IF r.winner = "stopped" THEN 0 ELSE IF Has(t, "end_seen") THEN 2 ELSE 1)
      /\ r.winner # "stopped" => t[Len(t) - (IF stream THEN 1 ELSE 0)] = "kill_server"
      /\ Count(t, "kill_my") <= 1
      /\ Count(t, "kill_monte") <= 1

\* A game went the success path and returned its row.
C7_Witness ==
  \E r \in AllRows : r.winner = "my" /\ Has(trace[r.game], "end_seen")

\* C8: a game gets past its readiness wait only with both markers in the
\* server log; a game whose readiness wait timed out has a server_no_port row
\* with exit codes 124, spawned no player, and its server was killed.
C8_ServerNeverReady ==
  /\ \A w \in Lanes :
       pc[w] \in {"spawn", "end", "ended"} => slog[w].marks = Markers
  /\ \A g \in Games :
       (proc[g].my # "none" \/ proc[g].monte # "none") => Has(trace[g], "ready")
  /\ \A r \in AllRows :
       Has(trace[r.game], "ready_timeout") =>
         /\ r.winner = "server_no_port"
         /\ r.my_exit = 124 /\ r.monte_exit = 124
         /\ proc[r.game].my = "none" /\ proc[r.game].monte = "none"
         /\ ~Has(trace[r.game], "spawn_my") /\ ~Has(trace[r.game], "spawn_monte")
         /\ proc[r.game].server = "killed"

\* A readiness wait timed out and the game returned its row.
C8_Witness ==
  \E r \in AllRows :
    /\ r.winner = "server_no_port"
    /\ Has(trace[r.game], "ready_timeout")

\* C9: a game whose end-of-game wait timed out has a no_end row with exit
\* codes 124, both players and the server were killed, and the log was not
\* classified.
C9_WallTimeout ==
  \A r \in AllRows :
    Has(trace[r.game], "end_timeout") =>
      /\ r.winner = "no_end"
      /\ r.my_exit = 124 /\ r.monte_exit = 124
      /\ proc[r.game].my = "killed" /\ proc[r.game].monte = "killed"
      /\ proc[r.game].server = "killed"
      /\ ~Has(trace[r.game], "classify")

\* An end-of-game wait timed out.
C9_Witness ==
  \E r \in AllRows : r.winner = "no_end" /\ Has(trace[r.game], "end_timeout")

\* The indices of the lines of a file that begin with "END ".
EndLines(file) ==
  {i \in DOMAIN file.lines : file.lines[i] # <<>> /\ file.lines[i][1] = "END "}

\* The classification as section 4.3 words it: decided by the last line
\* beginning with "END ".
LastEndRule(file) ==
  IF ~file.exists THEN "no_log"
  ELSE IF EndLines(file) = {} THEN "no_end"
  ELSE LET last == CHOOSE i \in EndLines(file) : \A j \in EndLines(file) : j <= i
           toks == {file.lines[last][k] : k \in DOMAIN file.lines[last]}
       IN  IF " win." \in toks THEN "my"
           ELSE IF " lose." \in toks THEN "monte"
           ELSE IF toks \cap {"draw", "DRAW"} # {} THEN "draw"
           ELSE "unknown"

\* C10: parse_winner_from_log returns no_log for a missing file, no_end when
\* no line begins with "END ", and otherwise what the ordered rules give on
\* the last line beginning with "END "; win takes precedence over lose.
C10_Classification ==
  pres # "unset" => pres = LastEndRule(plog)

\* A log with two "END " lines that classify differently, decided by the last.
C10_Witness ==
  /\ pres = "my"
  /\ Len(plog.lines) = 2
  /\ plog.lines[1] = <<"END ", " lose.">>
  /\ plog.lines[2] = <<"END ", " win.">>

\* C11: the end-of-game wait returns true only when some line of the player
\* log begins with "END "; "END " in the middle of a line never ends the wait.
C11_EndOnlyAtLineStart ==
  \A w \in Lanes :
    pc[w] = "ended" => EndLines(mylog[w]) # {}

\* C12: the readiness wait can return true exactly when the server log
\* exists and holds both markers, and as soon as it does; while it waits the
\* deadline can pass, whatever the log holds; a game whose wait returned
\* false never got a true answer, and one that got past the wait has a log
\* with both markers.
C12_ReadyNeedsBothMarkers ==
  /\ \A w \in Lanes :
       /\ (ENABLED ServerReady(w)) <=>
            (pc[w] = "ready" /\ slog[w].exists /\ slog[w].marks = Markers)
       /\ pc[w] = "ready" => ENABLED ReadyTimeout(w)
       /\ pc[w] \in {"spawn", "end", "ended"} =>
            /\ slog[w].exists /\ slog[w].marks = Markers
            /\ Has(trace[game[w]], "ready")
            /\ ~Has(trace[game[w]], "ready_timeout")
  /\ \A g \in Games :
       Has(trace[g], "ready_timeout") => ~Has(trace[g], "ready")

\* The readiness wait has returned true in a streaming run, where the log
\* was missing at first.
C12_Witness ==
  \E w \in Lanes :
    /\ stream
    /\ pc[w] = "spawn"
    /\ slog[w].marks = Markers

\* C13: kill_tree on a handle it has already killed, on a reaped handle or on
\* no handle leaves the process as it was, and the game still returns its
\* row; no kill_tree call ever signals a process group other than the
\* handle's own, because no handle is passed to kill_tree once its process
\* was reaped.
C13_KillTreeSafe ==
  /\ ~stray
  /\ \A st \in ProcStates :
       /\ KillTree(KillTree(st)) = KillTree(st)
       /\ st \in {"none", "exited"} => KillTree(st) = st
  /\ \A g \in Games :
       /\ Count(trace[g], "kill_server") = 2 =>
            /\ proc[g].server = "killed"
            /\ \E r \in AllRows : r.game = g
       /\ proc[g].my = "exited" => ~Has(trace[g], "kill_my")
       /\ proc[g].monte = "exited" => ~Has(trace[g], "kill_monte")

\* The server of a game was killed twice and a player of it, having exited
\* by itself, was reaped.
C13_Witness ==
  \E r \in AllRows :
    /\ Count(trace[r.game], "kill_server") = 2
    /\ proc[r.game].server = "killed"
    /\ "exited" \in {proc[r.game].my, proc[r.game].monte}

\* C14: once main has written the summary, every game that run_one_game was
\* entered for has returned a row.
C14_EveryStartedGameReturnsRow ==
  mainpc \in {"done", "failed"} =>
    \A g \in Games :
      trace[g] # <<>> => \E r \in AllRows : r.game = g

\* C15: no failure of a game ends its lane or the run: no lane leaves
\* worker_loop by an exception, main does not end by one, and in a run that
\* was never cancelled every game 1..N was attempted once main is done.
C15_NoFailureAbortsRun ==
  /\ \A w \in Lanes : pc[w] # "raised"
  /\ mainpc \notin {"unwinding", "failed"}
  /\ (mainpc = "done" /\ ~stop) => \A g \in Games : trace[g] # <<>>

\* The place of the first occurrence of the event e in the history t.
Pos(t, e) == CHOOSE i \in DOMAIN t : t[i] = e /\ \A j \in 1..(i - 1) : t[j] # e

\* C16: a player is spawned only after the server was spawned and then seen
\* ready, and each player once; in a game with an odd index the benchmark
\* player is spawned before the opponent, in an even game the opponent
\* before the benchmark player; the row's connect_order names that order.
C16_SpawnOrder ==
  \A g \in Games :
    LET t == trace[g]
    IN  /\ \A e \in {"spawn_my", "spawn_monte"} :
             Has(t, e) =>
               /\ Count(t, e) = 1
               /\ Has(t, "spawn_server") /\ Has(t, "ready")
               /\ Pos(t, "spawn_server") < Pos(t, "ready")
               /\ Pos(t, "ready") < Pos(t, e)
        /\ (proc[g].my # "none") <=> Has(t, "spawn_my")
        /\ (proc[g].monte # "none") <=> Has(t, "spawn_monte")
        /\ (g % 2 = 1 /\ Has(t, "spawn_monte")) =>
             Has(t, "spawn_my") /\ Pos(t, "spawn_my") < Pos(t, "spawn_monte")
        /\ (g % 2 = 0 /\ Has(t, "spawn_my")) =>
             Has(t, "spawn_monte") /\ Pos(t, "spawn_monte") < Pos(t, "spawn_my")
        /\ \A r \in AllRows :
             r.game = g =>
               r.connect_order = (IF g % 2 = 1 THEN "my-first" ELSE "monte-first")

\* Both players of an even game and of an odd game were spawned, and both
\* games have their rows.
C16_Witness ==
  \E r1 \in AllRows, r2 \in AllRows :
    /\ r1.game % 2 = 1 /\ r2.game % 2 = 0
    /\ r1.connect_order = "my-first" /\ r2.connect_order = "monte-first"
    /\ Has(trace[r1.game], "spawn_monte")
    /\ Has(trace[r2.game], "spawn_my")

\* The events of the path after END are in the order of the code: the server
\* is killed, then the benchmark player is waited for (and killed if the wait
\* timed out), then the opponent, then the log is classified.
TeardownInOrder(t) ==
  /\ Has(t, "kill_server") /\ Has(t, "wait_my")
  /\ Has(t, "wait_monte") /\ Has(t, "classify")
  /\ Pos(t, "end_seen") < Pos(t, "kill_server")
  /\ Pos(t, "kill_server") < Pos(t, "wait_my")
  /\ Pos(t, "wait_my") < Pos(t, "wait_monte")
  /\ Pos(t, "wait_monte") < Pos(t, "classify")
  /\ Has(t, "kill_my") =>
       Pos(t, "wait_my") < Pos(t, "kill_my") /\ Pos(t, "kill_my") < Pos(t, "wait_monte")
  /\ Has(t, "kill_monte") =>
       Pos(t, "wait_monte") < Pos(t, "kill_monte") /\ Pos(t, "kill_monte") < Pos(t, "classify")

\* The exit code in the row is the player's own when it exited within the
\* wait, and 124 when it was killed after the wait timed out.
ExitRecorded(st, code, exit, killed) ==
  /\ st \in {"exited", "killed"}
  /\ st = "exited" => exit = code /\ ~killed
  /\ st = "killed" => exit = 124 /\ killed

\* C17 as stated: on the path after END the events are in order, the exit
\* codes are recorded, and 124 is in a row only for a player that was killed
\* or never spawned.
C17_SentinelOnlyWhenKilled ==
  \A r \in AllRows :
    Has(trace[r.game], "end_seen") =>
      LET t == trace[r.game]
          p == proc[r.game]
      IN  /\ TeardownInOrder(t)
          /\ ExitRecorded(p.my, p.my_code, r.my_exit, Has(t, "kill_my"))
          /\ ExitRecorded(p.monte, p.monte_code, r.monte_exit, Has(t, "kill_monte"))
          /\ r.my_exit = 124 => p.my \in {"killed", "none"}
          /\ r.monte_exit = 124 => p.monte \in {"killed", "none"}

\* C18: a call of run_one_game that finds the flag set can only return its
\* stopped row: it spawns no server; at that point no process, no log file
\* and no event of the game exists, and the stopped row, with exit codes
\* 130, leaves it so; conversely a stopped row is the row of a game for
\* which nothing was ever spawned.
C18_PreemptiveStop ==
  /\ \A w \in Lanes :
       pc[w] = "call" =>
         /\ proc[game[w]] = NoProc /\ trace[game[w]] = <<>>
         /\ ~slog[w].exists /\ ~mylog[w].exists
         /\ stop =>
              /\ ENABLED EnterStopped(w)
              /\ ~ENABLED SpawnServer(w)
              /\ ~ENABLED SpawnServerRaises(w)
  /\ \A r \in AllRows :
       /\ r.winner = "stopped" <=> trace[r.game] = <<"stopped">>
       /\ r.winner = "stopped" =>
            /\ r.my_exit = 130 /\ r.monte_exit = 130
            /\ proc[r.game].server = "none"
            /\ proc[r.game].my = "none" /\ proc[r.game].monte = "none"
       /\ proc[r.game] # NoProc => r.winner # "stopped"

\* A lane entered run_one_game with the flag set and returned a stopped row
\* after an earlier game of it had run.
C18_Witness ==
  \E w \in Lanes :
    /\ stop
    /\ Len(results[w]) = 2
    /\ results[w][1].winner # "stopped"
    /\ results[w][2].winner = "stopped"
    /\ proc[results[w][2].game] = NoProc

\* The rows of the lists of the lanes that have returned.
ReturnedRows ==
  UNION { {results[w][i] : i \in DOMAIN results[w]} : w \in {v \in Lanes : pc[v] = "returned"} }

\* C19: once main has written the summary, it holds the rows of every lane
\* that returned its list, each once and unaltered, in strictly ascending
\* order of game index; before that, a lane's rows are in the merged list
\* only if the lane has returned.
C19_SummaryComplete ==
  /\ mainpc \in {"done", "failed"} =>
       /\ {summary[i] : i \in DOMAIN summary} = ReturnedRows
       /\ Len(summary) = Cardinality(ReturnedRows)
       /\ \A i \in DOMAIN summary, j \in DOMAIN summary :
            i < j => summary[i].game < summary[j].game
  /\ \A i \in DOMAIN merged :
       /\ pc[merged[i].worker] = "returned"
       /\ merged[i].worker \in collected

\* C20: a game whose end-of-game wait returned true is classified my, monte,
\* draw or unknown, never no_end; a no_end row has the exit codes 124 and
\* 124, and the log of a game with a no_end or server_no_port row was not
\* classified.
C20_DetectionAgreesWithClassification ==
  \A r \in AllRows :
    /\ Has(trace[r.game], "end_seen") =>
         r.winner \in {"my", "monte", "draw", "unknown"}
    /\ r.winner = "no_end" => r.my_exit = 124 /\ r.monte_exit = 124
    /\ r.winner \in {"no_end", "server_no_port"} => ~Has(trace[r.game], "classify")

====
